---- MODULE Spec2Model ----
(***************************************************************************)
(* Model of plugin_viewer.py: the PluginViewer application object, its     *)
(* data loading, its filter and sort steps, the table/status binding and   *)
(* the event handlers that drive them.                                     *)
(*                                                                         *)
(* Strings are sequences of one-character strings, so that lower(),        *)
(* strip(), replace(), join(), the `in` substring test and the code-point  *)
(* comparison used by list.sort are computed rather than assumed.          *)
(***************************************************************************)
EXTENDS Integers, Sequences, FiniteSets, TLC

(***************************************************************************)
(* Bounds of the model.                                                    *)
(***************************************************************************)
\* Greatest number of records in the loaded Plugins.json.
MaxPlugins == 3

(***************************************************************************)
(* Python str operations.                                                  *)
(***************************************************************************)
LowerLetters == <<"a","b","c","d","e","f","g","h","i","j","k","l","m",
                  "n","o","p","q","r","s","t","u","v","w","x","y","z">>
UpperLetters == <<"A","B","C","D","E","F","G","H","I","J","K","L","M",
                  "N","O","P","Q","R","S","T","U","V","W","X","Y","Z">>

Range(s) == {s[i] : i \in DOMAIN s}

UpperSet == Range(UpperLetters)
LowerSet == Range(LowerLetters)

\* The characters of the model's strings.
Alphabet == UpperSet \cup LowerSet \cup {" "}

IndexIn(c, letters) == CHOOSE i \in DOMAIN letters : letters[i] = c

\* The code point of each character (space, A-Z, a-z).
CodePoint ==
  [c \in Alphabet |->
     IF c \in UpperSet THEN 64 + IndexIn(c, UpperLetters)
     ELSE IF c \in LowerSet THEN 96 + IndexIn(c, LowerLetters)
     ELSE 32]

\* ord(c)
ord(c) == CodePoint[c]

\* The lower-case form of each character.
LowerCase ==
  [c \in Alphabet |->
     IF c \in UpperSet THEN LowerLetters[IndexIn(c, UpperLetters)] ELSE c]

\* str.lower() on one character.
char_lower(c) == LowerCase[c]

\* str.lower()
str_lower(s) == [i \in DOMAIN s |-> char_lower(s[i])]

\* The characters str.strip() removes.
Whitespace == {" "}

\* str.strip(): drop leading and trailing whitespace.
str_strip(s) ==
  LET keep == {i \in DOMAIN s : s[i] \notin Whitespace}
  IN  IF keep = {} THEN <<>>
      ELSE LET lo == CHOOSE i \in keep : \A j \in keep : i <= j
               hi == CHOOSE i \in keep : \A j \in keep : j <= i
           IN  SubSeq(s, lo, hi)

\* str.replace(" ", ""): remove every space.
RECURSIVE str_remove_spaces(_)
str_remove_spaces(s) ==
  IF s = <<>> THEN <<>>
  ELSE IF Head(s) = " " THEN str_remove_spaces(Tail(s))
  ELSE <<Head(s)>> \o str_remove_spaces(Tail(s))

\* sep.join(parts)
RECURSIVE str_join(_, _)
str_join(sep, parts) ==
  IF parts = <<>> THEN <<>>
  ELSE IF Len(parts) = 1 THEN parts[1]
  ELSE parts[1] \o sep \o str_join(sep, Tail(parts))

\* needle in text
str_contains(needle, text) ==
  \E i \in 0..(Len(text) - Len(needle)) :
     SubSeq(text, i + 1, i + Len(needle)) = needle

\* a < b for str: lexicographic by code point, a proper prefix is smaller.
str_less(a, b) ==
  \E i \in 1..(Len(b)) :
     /\ i <= Len(a) + 1
     /\ \A j \in 1..(i - 1) : a[j] = b[j]
     /\ \/ i = Len(a) + 1
        \/ ord(a[i]) < ord(b[i])

\* dict.get(key, default)
dict_get(d, key, default) == IF key \in DOMAIN d THEN d[key] ELSE default


(***************************************************************************)
(* Field names of a record of Plugins.json and the keys of the table       *)
(* columns.                                                                *)
(***************************************************************************)
F_PluginType   == "Plugin Type"
F_Name         == "Name"
F_Manufacturer == "Manufacturer"
F_Description  == "Description"
F_Invsestigate == "Invsestigate"

\* The characters of each field name.
FieldChars ==
  (F_PluginType   :> <<"P","l","u","g","i","n"," ","T","y","p","e">>) @@
  (F_Name         :> <<"N","a","m","e">>) @@
  (F_Manufacturer :> <<"M","a","n","u","f","a","c","t","u","r","e","r">>) @@
  (F_Description  :> <<"D","e","s","c","r","i","p","t","i","o","n">>) @@
  (F_Invsestigate :> <<"I","n","v","s","e","s","t","i","g","a","t","e">>)

K_type         == <<"t","y","p","e">>
K_name         == <<"n","a","m","e">>
K_manufacturer == <<"m","a","n","u","f","a","c","t","u","r","e","r">>
K_description  == <<"d","e","s","c","r","i","p","t","i","o","n">>
K_investigate  == <<"i","n","v","e","s","t","i","g","a","t","e">>

\* setup_table: the keys of the five columns, in display order.
columns == <<K_type, K_name, K_manufacturer, K_description, K_investigate>>

ColumnKeys == Range(columns)

\* key_map of sort_plugins.get_sort_value
sort_key_map ==
  (K_type :> F_PluginType) @@ (K_name :> F_Name) @@
  (K_manufacturer :> F_Manufacturer) @@ (K_description :> F_Description) @@
  (K_investigate :> F_Invsestigate)

\* key_map of on_data_table_column_selected
column_key_map ==
  (K_type :> F_PluginType) @@ (K_name :> F_Name) @@
  (K_manufacturer :> F_Manufacturer) @@ (K_description :> F_Description) @@
  (K_investigate :> F_Invsestigate)

(***************************************************************************)
(* The inputs: records a Plugins.json may hold, and search texts.          *)
(* A record is a function from field names to strings; a field may be      *)
(* missing.                                                                *)
(***************************************************************************)
PluginA == (F_Name :> <<"a">>) @@ (F_Manufacturer :> <<"Y">>)
PluginB == (F_PluginType :> <<"B">>) @@ (F_Name :> <<"B">>) @@
           (F_Manufacturer :> <<"x">>) @@ (F_Description :> <<>>) @@
           (F_Invsestigate :> <<"y">>)
PluginC == (F_PluginType :> <<"a">>) @@ (F_Name :> <<"b">>) @@
           (F_Manufacturer :> <<"x">>) @@ (F_Description :> <<"b">>) @@
           (F_Invsestigate :> <<>>)

Records == {PluginA, PluginB, PluginC}

\* What Plugins.json may hold: every list of at most MaxPlugins records.
Datasets == UNION {[1..n -> Records] : n \in 0..MaxPlugins}

\* What opening and parsing Plugins.json may give: a list, or an exception.
Sources == [ok : {TRUE}, data : Datasets] \cup {[ok |-> FALSE, data |-> <<>>]}

\* Texts of the search input: empty, whitespace only, one that matches no
\* record (it spans Plugin Type and Name), one that matches across Name and
\* Manufacturer; both with upper case.
Queries == { <<>>, <<" "," ">>, <<"A"," ","b">>, <<"b"," ","X">> }

(***************************************************************************)
(* State of the application.                                               *)
(***************************************************************************)
VARIABLES
  source,              \* what reading Plugins.json gives (fixed for the run)
  pc,                  \* "constructed", "mounted" (event loop running), "crashed"
  plugins,             \* self.plugins
  filtered_plugins,    \* self.filtered_plugins
  same_list,           \* self.filtered_plugins is the list object self.plugins
  sort_key,            \* self.sort_key
  sort_reverse,        \* self.sort_reverse
  search_query,        \* self.search_query
  title,               \* self.title
  notifications,       \* what self.notify has raised
  search_input_value,  \* value of the Input #search-input
  table_columns,       \* column keys of the DataTable #plugins-table
  table_rows,          \* rows of the DataTable #plugins-table
  stats,               \* text of the Static #stats
  filter_result,       \* self.filtered_plugins as filter_plugins hands it to sort_plugins
  last_event           \* the event handled last

vars == <<source, pc, plugins, filtered_plugins, same_list, sort_key,
          sort_reverse, search_query, title, notifications,
          search_input_value, table_columns, table_rows, stats,
          filter_result, last_event>>

Event(kind, arg) == [kind |-> kind, arg |-> arg]

\* f"Showing {shown} of {total} plugins"
stats_text(shown, total) == <<"Showing", shown, "of", total, "plugins">>

(***************************************************************************)
(* load_data                                                               *)
(***************************************************************************)
\* list_copy without the copy: the same list object under a second name.
list_copy_alias(l) == [items |-> l, same |-> TRUE]

\* list.copy(): a new list object holding the same records.
list_copy(l) == [items |-> l, same |-> FALSE]

\* load_data without its except clause: the exception leaves load_data.
load_data_propagates(src) ==
  IF src.ok
  THEN [plugins          |-> src.data,
        filtered_plugins |-> src.data,
        same_list        |-> FALSE,
        title            |-> <<"Plugin Viewer -", Len(src.data), "plugins">>,
        notifications    |-> <<>>,
        propagates       |-> FALSE]
  ELSE [plugins          |-> <<>>,
        filtered_plugins |-> <<>>,
        same_list        |-> FALSE,
        title            |-> <<"PluginViewer">>,
        notifications    |-> <<>>,
        propagates       |-> TRUE]

load_data(src) ==
  IF src.ok
  THEN LET c == list_copy(src.data)
       IN  [plugins          |-> src.data,
            filtered_plugins |-> c.items,
            same_list        |-> c.same,
            title            |-> <<"Plugin Viewer -", Len(src.data), "plugins">>,
            notifications    |-> <<>>,
            propagates       |-> FALSE]
  ELSE [plugins          |-> <<>>,
        filtered_plugins |-> <<>>,
        same_list        |-> FALSE,
        title            |-> <<"Plugin Viewer - Error loading data">>,
        notifications    |-> <<[message |-> "Error loading plugins", severity |-> "error"]>>,
        propagates       |-> FALSE]

(***************************************************************************)
(* populate_table                                                          *)
(***************************************************************************)
\* The row table.add_row receives for one record.
table_row(plugin) ==
  << dict_get(plugin, F_PluginType, <<>>),
     dict_get(plugin, F_Name, <<>>),
     dict_get(plugin, F_Manufacturer, <<>>),
     dict_get(plugin, F_Description, <<>>),
     dict_get(plugin, F_Invsestigate, <<>>) >>

populate_table(fp, pl) ==
  /\ table_rows' = [i \in DOMAIN fp |-> table_row(fp[i])]
  /\ stats' = stats_text(Len(fp), Len(pl))

(***************************************************************************)
(* sort_plugins                                                            *)
(***************************************************************************)
get_sort_value(plugin, key) ==
  LET field == dict_get(sort_key_map, key, F_Name)
      value == dict_get(plugin, field, <<>>)
  IN  str_lower(value)

\* sorts_before with <= for <: a record goes before the records it ties with.
sorts_before_or_equal(x, y, key, reverse) ==
  IF reverse
  THEN ~str_less(get_sort_value(x, key), get_sort_value(y, key))
  ELSE ~str_less(get_sort_value(y, key), get_sort_value(x, key))

\* x goes before y in list.sort(key=..., reverse=...)
sorts_before(x, y, key, reverse) ==
  IF reverse
  THEN str_less(get_sort_value(y, key), get_sort_value(x, key))
  ELSE str_less(get_sort_value(x, key), get_sort_value(y, key))

\* Every value self.sort_key takes: the one __init__ sets and those
\* on_data_table_column_selected stores.
SortKeys ==
  {K_name} \cup {str_remove_spaces(str_lower(FieldChars[dict_get(column_key_map, c, F_Name)])) :
                    c \in ColumnKeys}

\* sorts_before, evaluated once for each pair of records.
SortsBefore ==
  [x \in Records, y \in Records, key \in SortKeys, reverse \in BOOLEAN |->
     sorts_before(x, y, key, reverse)]

\* Insert x into the sorted list s behind every element it does not go before.
RECURSIVE sorted_insert(_, _, _, _)
sorted_insert(x, s, key, reverse) ==
  IF s = <<>> THEN <<x>>
  ELSE LET last == s[Len(s)]
       IN  IF SortsBefore[x, last, key, reverse]
           THEN sorted_insert(x, SubSeq(s, 1, Len(s) - 1), key, reverse) \o <<last>>
           ELSE s \o <<x>>

\* list.sort(key=get_sort_value, reverse=reverse): stable in both directions.
RECURSIVE list_sort(_, _, _)
list_sort(s, key, reverse) ==
  IF s = <<>> THEN <<>>
  ELSE sorted_insert(s[Len(s)], list_sort(SubSeq(s, 1, Len(s) - 1), key, reverse),
                     key, reverse)

\* list.reverse()
list_reverse(s) == [i \in DOMAIN s |-> s[Len(s) + 1 - i]]

\* s with each record kept once.
RECURSIVE without_repeats(_)
without_repeats(s) ==
  IF s = <<>> THEN <<>>
  ELSE LET rest == without_repeats(SubSeq(s, 1, Len(s) - 1))
       IN  IF s[Len(s)] \in Range(rest) THEN rest ELSE rest \o <<s[Len(s)]>>

\* sorted_plugins that sorts the distinct records only.
sorted_plugins_without_repeats(fp, key, reverse) ==
  LET sorted == list_sort(without_repeats(fp), key, reverse)
  IN  IF reverse THEN list_reverse(sorted) ELSE sorted

\* The list sort_plugins leaves in self.filtered_plugins (not empty on entry).
sorted_plugins(fp, key, reverse) ==
  LET sorted == list_sort(fp, key, reverse)
  IN  IF reverse THEN list_reverse(sorted) ELSE sorted

\* sort_plugins on the list fp held by self.filtered_plugins; aliased tells
\* whether that list is the list object self.plugins.
sort_plugins(fp, aliased, key, reverse) ==
  IF fp = <<>>
  THEN /\ filtered_plugins' = fp
       /\ plugins' = plugins
       /\ UNCHANGED <<table_rows, stats>>
  ELSE LET sorted == sorted_plugins(fp, key, reverse)
       IN  /\ filtered_plugins' = sorted
           /\ plugins' = IF aliased THEN sorted ELSE plugins
           /\ populate_table(sorted, plugins')


(***************************************************************************)
(* filter_plugins                                                          *)
(***************************************************************************)
\* is_blank without strip(): only the empty text is blank.
is_blank_no_strip(query) == query = <<>>

\* query.strip() is empty
is_blank(query) == str_strip(query) = <<>>

\* searchable_text without lower().
searchable_text_no_lower(plugin) ==
  str_join(<<" ">>, << dict_get(plugin, F_Name, <<>>),
                       dict_get(plugin, F_Manufacturer, <<>>),
                       dict_get(plugin, F_Description, <<>>),
                       dict_get(plugin, F_PluginType, <<>>),
                       dict_get(plugin, F_Invsestigate, <<>>) >>)

searchable_text(plugin) ==
  str_lower(str_join(<<" ">>, << dict_get(plugin, F_Name, <<>>),
                                 dict_get(plugin, F_Manufacturer, <<>>),
                                 dict_get(plugin, F_Description, <<>>),
                                 dict_get(plugin, F_PluginType, <<>>),
                                 dict_get(plugin, F_Invsestigate, <<>>) >>))

\* query_lower in searchable_text
matches(plugin, query_lower) == str_contains(query_lower, searchable_text(plugin))

\* matches, evaluated once for each record and search text.
Matches ==
  [plugin \in Records, query_lower \in {str_lower(q) : q \in Queries} |->
     matches(plugin, query_lower)]

\* The for loop of filter_plugins: the records of pl that match, in pl's order.
RECURSIVE matching_plugins(_, _)
matching_plugins(pl, query_lower) ==
  IF pl = <<>> THEN <<>>
  ELSE LET rest == matching_plugins(SubSeq(pl, 1, Len(pl) - 1), query_lower)
           plugin == pl[Len(pl)]
       IN  IF Matches[plugin, query_lower]
           THEN rest \o <<plugin>>
           ELSE rest

\* The list filter_plugins puts in self.filtered_plugins before it sorts.
filter_step(pl, query) ==
  IF is_blank(query)
  THEN list_copy(pl)
  ELSE [items |-> matching_plugins(pl, str_lower(query)), same |-> FALSE]

\* filter_plugins that searches the visible list instead of the dataset.
filter_plugins_narrows(query) ==
  LET f == filter_step(filtered_plugins, query)
  IN  /\ search_query' = query
      /\ filter_result' = f.items
      /\ same_list' = f.same
      /\ sort_plugins(f.items, f.same, sort_key, sort_reverse)
      /\ UNCHANGED <<sort_key, sort_reverse>>

filter_plugins(query) ==
  LET f == filter_step(plugins, query)
  IN  /\ search_query' = query
      /\ filter_result' = f.items
      /\ same_list' = f.same
      /\ sort_plugins(f.items, f.same, sort_key, sort_reverse)
      /\ UNCHANGED <<sort_key, sort_reverse>>

(***************************************************************************)
(* The application: construction, mount and the event handlers.            *)
(***************************************************************************)
\* __init__ and compose
Init ==
  /\ source \in Sources
  /\ pc = "constructed"
  /\ plugins = <<>>
  /\ filtered_plugins = <<>>
  /\ same_list = FALSE
  /\ sort_key = K_name
  /\ sort_reverse = FALSE
  /\ search_query = <<>>
  /\ title = <<"PluginViewer">>
  /\ notifications = <<>>
  /\ search_input_value = <<>>
  /\ table_columns = <<>>
  /\ table_rows = <<>>
  /\ stats = stats_text(0, 0)
  /\ filter_result = <<>>
  /\ last_event = Event("none", <<>>)

\* on_mount: load_data, setup_table, populate_table
on_mount ==
  /\ pc = "constructed"
  /\ LET l == load_data(source)
     IN  /\ plugins' = l.plugins
         /\ filtered_plugins' = l.filtered_plugins
         /\ same_list' = l.same_list
         /\ title' = l.title
         /\ notifications' = l.notifications
         /\ IF l.propagates
            THEN /\ pc' = "crashed"
                 /\ UNCHANGED <<table_columns, table_rows, stats>>
            ELSE /\ pc' = "mounted"
                 /\ table_columns' = columns
                 /\ populate_table(l.filtered_plugins, l.plugins)
  /\ last_event' = Event("Mount", <<>>)
  /\ UNCHANGED <<source, sort_key, sort_reverse, search_query,
                 search_input_value, filter_result>>

\* on_input_changed: the user edits the search input, which then holds text.
on_input_changed(text) ==
  /\ pc = "mounted"
  /\ search_input_value' = text
  /\ filter_plugins(text)
  /\ last_event' = Event("SearchTextChanged", <<>>)
  /\ UNCHANGED <<source, pc, title, notifications, table_columns>>

\* on_input_submitted: the user submits the search input's value.
on_input_submitted ==
  /\ pc = "mounted"
  /\ filter_plugins(search_input_value)
  /\ last_event' = Event("SearchSubmitted", <<>>)
  /\ UNCHANGED <<source, pc, title, notifications, table_columns,
                 search_input_value>>

\* column_name.lower().replace(" ", "")
normalised(column_name) == str_remove_spaces(str_lower(FieldChars[column_name]))

\* column_selected with "= True" for "= not self.sort_reverse".
column_selected_sets_descending(column_key, key, reverse) ==
  LET column_name == dict_get(column_key_map, column_key, F_Name)
  IN  IF key = normalised(column_name)
      THEN [sort_key |-> key, sort_reverse |-> TRUE]
      ELSE [sort_key |-> normalised(column_name), sort_reverse |-> FALSE]

\* The sort key and direction on_data_table_column_selected sets.
column_selected(column_key, key, reverse) ==
  LET column_name == dict_get(column_key_map, column_key, F_Name)
  IN  IF key = normalised(column_name)
      THEN [sort_key |-> key, sort_reverse |-> ~reverse]
      ELSE [sort_key |-> normalised(column_name), sort_reverse |-> FALSE]

on_data_table_column_selected(column_key) ==
  /\ pc = "mounted"
  /\ LET c == column_selected(column_key, sort_key, sort_reverse)
     IN  /\ sort_key' = c.sort_key
         /\ sort_reverse' = c.sort_reverse
         /\ sort_plugins(filtered_plugins, same_list, c.sort_key, c.sort_reverse)
  /\ last_event' = Event("ColumnSelected", column_key)
  /\ UNCHANGED <<source, pc, same_list, search_query, title, notifications,
                 search_input_value, table_columns, filter_result>>

\* clear_search that also puts the direction back to ascending.
clear_search_resets_direction(pl, key, reverse, query) ==
  [search_input_value |-> <<>>,
   filtered_plugins   |-> pl,
   same_list          |-> FALSE,
   sort_key           |-> key,
   sort_reverse       |-> FALSE,
   search_query       |-> query]

\* What action_clear_search assigns before it sorts.
clear_search(pl, key, reverse, query) ==
  LET c == list_copy(pl)
  IN  [search_input_value |-> <<>>,
       filtered_plugins   |-> c.items,
       same_list          |-> c.same,
       sort_key           |-> key,
       sort_reverse       |-> reverse,
       search_query       |-> query]

action_clear_search ==
  /\ pc = "mounted"
  /\ LET c == clear_search(plugins, sort_key, sort_reverse, search_query)
     IN  /\ search_input_value' = c.search_input_value
         /\ same_list' = c.same_list
         /\ sort_key' = c.sort_key
         /\ sort_reverse' = c.sort_reverse
         /\ search_query' = c.search_query
         /\ sort_plugins(c.filtered_plugins, c.same_list, c.sort_key, c.sort_reverse)
  /\ last_event' = Event("ClearSearch", <<>>)
  /\ UNCHANGED <<source, pc, title, notifications, table_columns,
                 filter_result>>

SearchTextChanged == \E text \in Queries : on_input_changed(text)

ColumnSelected == \E column_key \in ColumnKeys : on_data_table_column_selected(column_key)

Next ==
  \/ on_mount
  \/ SearchTextChanged
  \/ on_input_submitted
  \/ ColumnSelected
  \/ action_clear_search

Spec == Init /\ [][Next]_vars


(***************************************************************************)
(* Vocabulary of the properties.                                           *)
(***************************************************************************)
Mounted == pc = "mounted"

\* What load gave: the list read from Plugins.json, or nothing.
Loaded == IF source.ok THEN source.data ELSE <<>>

Handled(kinds) == last_event.kind \in kinds

SearchEvents == {"SearchTextChanged", "SearchSubmitted"}

UserEvents == SearchEvents \cup {"ColumnSelected", "ClearSearch"}

\* The text is empty or holds whitespace only.
AllWhitespace(text) == \A i \in DOMAIN text : text[i] \in Whitespace

Count(r, s) == Cardinality({i \in DOMAIN s : s[i] = r})

\* s and t hold the same records, each as often.
SameRecords(s, t) == \A r \in Records : Count(r, s) = Count(r, t)

\* The field a column shows: column i of setup_table shows field i of a row.
RowFields == <<F_PluginType, F_Name, F_Manufacturer, F_Description, F_Invsestigate>>

ColumnField(column_key) ==
  RowFields[CHOOSE i \in DOMAIN columns : columns[i] = column_key]

\* The lowercased value of a column's own field; a missing field is empty.
ColumnValue(plugin, column_key) ==
  str_lower(dict_get(plugin, ColumnField(column_key), <<>>))

NonDecreasing(s, column_key) ==
  \A i \in 1..(Len(s) - 1) :
     ~str_less(ColumnValue(s[i + 1], column_key), ColumnValue(s[i], column_key))

NonIncreasing(s, column_key) ==
  \A i \in 1..(Len(s) - 1) :
     ~str_less(ColumnValue(s[i], column_key), ColumnValue(s[i + 1], column_key))

\* The five fields of a record in the given order, joined by single spaces,
\* lowercased.
JoinedFields(plugin, order) ==
  str_lower(str_join(<<" ">>, [i \in DOMAIN order |-> dict_get(plugin, order[i], <<>>)]))

(***************************************************************************)
(* C1. For every visible list and every sort field, sorting with           *)
(* sortDescending = true gives the exact reverse of sorting the same list  *)
(* with sortDescending = false.                                            *)
(* The code sorts with reverse=True and then reverses again, which gives   *)
(* the ascending order with tied records swapped.                          *)
(***************************************************************************)
C1_DescendingIsReverseOfAscending ==
  Mounted =>
    \A key \in ColumnKeys :
       sorted_plugins(filtered_plugins, key, TRUE)
         = list_reverse(sorted_plugins(filtered_plugins, key, FALSE))

(***************************************************************************)
(* C2. After ColumnSelected on any of the five columns the visible list is *)
(* ordered (in one direction or the other) by the lowercased value of      *)
(* that column's own field.                                                *)
(* For Plugin Type and Investigate the handler stores "plugintype" and     *)
(* "invsestigate", which sort_plugins does not know, so it sorts by Name.  *)
(***************************************************************************)
C2_OrderedBySelectedColumn ==
  Handled({"ColumnSelected"}) =>
    \/ NonDecreasing(filtered_plugins, last_event.arg)
    \/ NonIncreasing(filtered_plugins, last_event.arg)

(***************************************************************************)
(* C3. After every handled user event the table holds one row per record   *)
(* of the visible list, in its order, and the status line reads            *)
(* "Showing {shown} of {total} plugins" for the two lengths.               *)
(* sort_plugins returns before populate_table when the list is empty.      *)
(***************************************************************************)
C3_TableShowsVisibleSubset ==
  Handled(UserEvents) =>
    /\ table_rows = [i \in DOMAIN filtered_plugins |->
                       [j \in DOMAIN RowFields |->
                          dict_get(filtered_plugins[i], RowFields[j], <<>>)]]
    /\ stats = <<"Showing", Len(filtered_plugins), "of", Len(plugins), "plugins">>


(***************************************************************************)
(* C4. For a search text that is not empty or all whitespace, a record is  *)
(* in the filter result if and only if the lowercased text is a substring  *)
(* of the record's five fields joined by single spaces and lowercased.     *)
(***************************************************************************)
FilteredIffMatches(order) ==
  (Handled(SearchEvents) /\ ~AllWhitespace(search_query)) =>
    \A i \in DOMAIN plugins :
       (plugins[i] \in Range(filtered_plugins))
         <=> str_contains(str_lower(search_query), JoinedFields(plugins[i], order))

\* C4 as claimed: the fields are joined in the order type, name,
\* manufacturer, description, investigate, so a text spanning type and name
\* matches.
C4_MatchesInRowOrder ==
  FilteredIffMatches(<<F_PluginType, F_Name, F_Manufacturer, F_Description,
                       F_Invsestigate>>)

\* C4 as amended: the fields are joined in the order name, manufacturer,
\* description, type, investigate.
C4_MatchesInSearchOrder ==
  FilteredIffMatches(<<F_Name, F_Manufacturer, F_Description, F_PluginType,
                       F_Invsestigate>>)

\* A search with upper case in text and records, matching across the Name and
\* Manufacturer fields, has kept two records and dropped one.
C4_Witness ==
  /\ Handled(SearchEvents)
  /\ search_query = <<"b"," ","X">>
  /\ Len(plugins) = 3
  /\ Len(filtered_plugins) = 2
  /\ PluginB \in Range(filtered_plugins)

(***************************************************************************)
(* C5. For a search text that is empty or all whitespace, the filter step  *)
(* of filter_plugins selects every record of the dataset in the dataset's  *)
(* order, none dropped or duplicated, before the sort step runs.           *)
(***************************************************************************)
C5_BlankQueryKeepsDataset ==
  (Handled(SearchEvents) /\ AllWhitespace(search_query)) =>
    filter_result = plugins

\* A whitespace-only search over three records, which the sort step then
\* reordered.
C5_Witness ==
  /\ Handled(SearchEvents)
  /\ search_query = <<" "," ">>
  /\ Len(plugins) = 3
  /\ filter_result = plugins
  /\ filtered_plugins # plugins

(***************************************************************************)
(* C6. A ColumnSelected event on the current sort field flips              *)
(* sortDescending and keeps the sort field; on any other column it makes   *)
(* that column the sort field and sets sortDescending to false.            *)
(* For Plugin Type and Investigate the stored sort field is "plugintype"   *)
(* or "invsestigate", not the column's key.                                *)
(***************************************************************************)
C6_ColumnSelectedTogglesOrResets ==
  [][\A column_key \in ColumnKeys :
       last_event' = Event("ColumnSelected", column_key) =>
         IF sort_key = column_key
         THEN sort_key' = sort_key /\ sort_reverse' = ~sort_reverse
         ELSE sort_key' = column_key /\ sort_reverse' = FALSE]_vars

(***************************************************************************)
(* C7. In every state between two events the visible list holds exactly    *)
(* the records of the dataset that match the current searchQuery.          *)
(* action_clear_search empties the input and shows every record but        *)
(* leaves self.search_query as it was.                                     *)
(***************************************************************************)
C7_VisibleMatchesQuery ==
  Mounted => SameRecords(filtered_plugins, filter_step(plugins, search_query).items)

(***************************************************************************)
(* C8. ClearSearch makes the visible list hold every record of the         *)
(* dataset, each exactly once, and leaves sortField and sortDescending as  *)
(* they were.                                                              *)
(***************************************************************************)
C8_ClearSearchRestoresAll ==
  [][last_event'.kind = "ClearSearch" =>
       /\ SameRecords(filtered_plugins', plugins')
       /\ Len(filtered_plugins') = Len(plugins')
       /\ sort_key' = sort_key
       /\ sort_reverse' = sort_reverse]_vars

\* ClearSearch after a search that showed nothing, with a descending sort on
\* a column other than Name.
C8_Witness ==
  /\ Handled({"ClearSearch"})
  /\ search_query = <<"A"," ","b">>
  /\ Len(plugins) = 3
  /\ SameRecords(filtered_plugins, plugins)
  /\ sort_reverse
  /\ sort_key = K_manufacturer

(***************************************************************************)
(* C9. After load no sequence of events changes the dataset: its records,  *)
(* their number and their order stay what load produced, although the      *)
(* visible list is sorted in place.                                        *)
(***************************************************************************)
C9_DatasetNeverChanges ==
  pc # "constructed" => plugins = Loaded

\* Events have been handled and the visible list holds all three records in
\* another order than the dataset.
C9_Witness ==
  /\ Handled({"ColumnSelected"})
  /\ Len(plugins) = 3
  /\ Len(filtered_plugins) = 3
  /\ filtered_plugins # plugins

(***************************************************************************)
(* C10. When loading fails, the dataset and the visible list are empty, a  *)
(* notification is raised, the status line shows 0 of 0 and the session    *)
(* goes on: later events are handled (every handler is enabled while pc is *)
(* "mounted") and leave the visible list empty.                            *)
(***************************************************************************)
C10_LoadFailureDegrades ==
  (~source.ok /\ pc # "constructed") =>
    /\ pc = "mounted"
    /\ plugins = <<>>
    /\ filtered_plugins = <<>>
    /\ Len(notifications) = 1
    /\ notifications[1].severity = "error"
    /\ stats = <<"Showing", 0, "of", 0, "plugins">>
    /\ table_rows = <<>>

\* After a failed load a search, a clear and two column selections have been
\* handled.
C10_Witness ==
  /\ ~source.ok
  /\ Handled({"ColumnSelected"})
  /\ sort_reverse
  /\ search_query = <<"b"," ","X">>
  /\ search_input_value = <<>>


(***************************************************************************)
(* C11. ColumnSelected on the column that is already the sort field        *)
(* reverses the displayed order: the visible list after the event is the   *)
(* exact reverse of the visible list before it.                            *)
(* The code's descending sort is the ascending order with ties swapped     *)
(* (see C1), so toggling Name on [a, b] shows [a, b] again.                *)
(***************************************************************************)
C11_ToggleReversesVisible ==
  [][\A column_key \in ColumnKeys :
       (last_event' = Event("ColumnSelected", column_key) /\ sort_key = column_key) =>
         filtered_plugins' = list_reverse(filtered_plugins)]_vars

(***************************************************************************)
(* C12. ColumnSelected does not filter again: it leaves searchQuery as it  *)
(* was and the visible list holds the same records, each as often, as      *)
(* before the event.                                                       *)
(***************************************************************************)
C12_ColumnSelectedKeepsRecords ==
  [][last_event'.kind = "ColumnSelected" =>
       /\ search_query' = search_query
       /\ Len(filtered_plugins') = Len(filtered_plugins)
       /\ SameRecords(filtered_plugins', filtered_plugins)]_vars

\* A column selection on a search result of two out of three records, which
\* the selection reordered.
C12_Witness ==
  /\ Handled({"ColumnSelected"})
  /\ search_query = <<"b"," ","X">>
  /\ Len(plugins) = 3
  /\ Len(filtered_plugins) = 2
  /\ filtered_plugins = list_reverse(filter_result)
  /\ filtered_plugins # filter_result

(***************************************************************************)
(* C13. After SearchTextChanged with sortDescending = false the visible    *)
(* list is non-decreasing by the lowercased sort key, and visible records  *)
(* with equal sort keys are in the order they have in the dataset.         *)
(* The sort key is the value sort_plugins sorts by for the stored          *)
(* sort_key.                                                               *)
(***************************************************************************)
\* The records of s that are visible and have the sort value k, in s's order.
VisibleWithValue(s, k) ==
  LET Keep(x) == x \in Range(filtered_plugins) /\ get_sort_value(x, sort_key) = k
  IN  SelectSeq(s, Keep)

C14_SubmitAfterChangeIsIdempotent ==
  [][(last_event.kind = "SearchTextChanged" /\ last_event'.kind = "SearchSubmitted") =>
       /\ search_query' = search_input_value
       /\ search_query' = search_query
       /\ sort_key' = sort_key
       /\ sort_reverse' = sort_reverse
       /\ filtered_plugins' = filtered_plugins
       /\ table_rows' = table_rows
       /\ stats' = stats]_vars

\* A submitted search with a descending sort whose result holds two records
\* with equal Name keys, in the order opposite to the dataset's.
C14_Witness ==
  /\ Handled({"SearchSubmitted"})
  /\ sort_reverse
  /\ sort_key = K_name
  /\ search_query = <<"b"," ","X">>
  /\ plugins = <<PluginB, PluginA, PluginC>>
  /\ filtered_plugins = <<PluginC, PluginB>>
  /\ Len(table_rows) = 2

(***************************************************************************)
(* C15. In every state from mount on, the state right after a successful   *)
(* load included, the visible list is ordered according to the current     *)
(* sort settings: non-decreasing by the sort value when sortDescending is  *)
(* false, non-increasing when it is true.                                  *)
(* on_mount does not call sort_plugins: the first list is in file order.   *)
(***************************************************************************)
C15_VisibleAlwaysSorted ==
  Mounted =>
    \A i \in 1..(Len(filtered_plugins) - 1) :
       IF sort_reverse
       THEN ~str_less(get_sort_value(filtered_plugins[i], sort_key),
                      get_sort_value(filtered_plugins[i + 1], sort_key))
       ELSE ~str_less(get_sort_value(filtered_plugins[i + 1], sort_key),
                      get_sort_value(filtered_plugins[i], sort_key))

(***************************************************************************)
(* C16. Selecting the current sort column twice in a row is a round trip.  *)
(* A step that selects the current sort column, taken from a state that a  *)
(* sort has produced, is followed here by what the handler computes for    *)
(* the same column once more.                                              *)
(***************************************************************************)
\* The direction and the visible list after one more selection of the column
\* selected last, from the state after the step.
SelectedAgain ==
  LET c == column_selected(last_event'.arg, sort_key', sort_reverse')
  IN  [sort_key         |-> c.sort_key,
       sort_reverse     |-> c.sort_reverse,
       filtered_plugins |-> IF filtered_plugins' = <<>> THEN <<>>
                            ELSE sorted_plugins(filtered_plugins', c.sort_key,
                                                c.sort_reverse)]

\* The step selects the column that is the sort field, after at least one sort.
SelectsCurrentColumn ==
  /\ last_event.kind \in UserEvents
  /\ last_event'.kind = "ColumnSelected"
  /\ sort_key' = sort_key

\* C16 as claimed: the direction and the exact visible list are restored,
\* the order of records with equal sort keys included.
C16_TwoSelectionsRestoreList ==
  [][SelectsCurrentColumn =>
       /\ SelectedAgain.sort_reverse = sort_reverse
       /\ SelectedAgain.filtered_plugins = filtered_plugins]_vars

\* C16 as amended: the direction and the sort field are restored, and the
\* visible list up to the order of records with equal sort keys: the same
\* records, each as often, with the same sort value at every position.
C16_TwoSelectionsRestoreUpToTies ==
  [][SelectsCurrentColumn =>
       /\ SelectedAgain.sort_reverse = sort_reverse
       /\ SelectedAgain.sort_key = sort_key
       /\ Len(SelectedAgain.filtered_plugins) = Len(filtered_plugins)
       /\ SameRecords(SelectedAgain.filtered_plugins, filtered_plugins)
       /\ \A i \in DOMAIN filtered_plugins :
             get_sort_value(SelectedAgain.filtered_plugins[i], sort_key)
               = get_sort_value(filtered_plugins[i], sort_key)]_vars

\* The current sort column has been selected from an ascending list of three
\* records, two of them with equal Name keys.
C16_Witness ==
  /\ Handled({"ColumnSelected"})
  /\ last_event.arg = K_name
  /\ sort_key = K_name
  /\ sort_reverse
  /\ filtered_plugins = <<PluginA, PluginC, PluginB>>

(***************************************************************************)
(* C17. In every state the stored sort_key is one of the five keys of      *)
(* sort_plugins' key map, so the sort never falls back to Name for another *)
(* column.                                                                 *)
(* Selecting Plugin Type stores "plugintype", selecting Investigate stores *)
(* "invsestigate".                                                         *)
(***************************************************************************)
C17_SortKeyIsKnown ==
  sort_key \in DOMAIN sort_key_map

====
